---- MODULE Spec2Model ----
(***************************************************************************)
(* Model of twilight-error's ErrorHandler (src/src/lib.rs).                *)
(*                                                                         *)
(* Text is modelled as a rope: a sequence of string pieces whose           *)
(* concatenation is the Rust String.  The length of a text is the sum of   *)
(* the lengths of its pieces, so content validation is computed on real    *)
(* character counts.                                                       *)
(*                                                                         *)
(* An async `handle` call is a task that runs until its next `.await`;     *)
(* each action below is one such run (one poll of the future).             *)
(***************************************************************************)
EXTENDS Integers, Sequences, FiniteSets, TLC

(***************************************************************************)
(* Bounds of the model                                                     *)
(***************************************************************************)
\* total number of report calls (handle or handle_sync) started in a run
MaxReports == 2

\* number of setter calls recorded in the history of the setter calls
MaxSetterCalls == 3

\* tasks that may call handle / handle_sync on the shared reporter
Tasks == {"t1", "t2"}

\* identifiers the setters are called with
ChannelIds == {"chanA", "chanB"}
WebhookTargets == {<<"hookA", "tokA">>, <<"hookB", "tokB">>}
Paths == {"/tmp/errs.log", "/tmp/other.log"}

(***************************************************************************)
(* Option<T>: None is the empty sequence, Some(x) the one-element sequence *)
(***************************************************************************)
None == <<>>
Some(x) == <<x>>

(***************************************************************************)
(* Texts                                                                   *)
(***************************************************************************)
RECURSIVE Repeat(_, _)
Repeat(s, n) ==
    IF n = 0 THEN ""
    ELSE LET h == Repeat(s, n \div 2)
         IN  IF n % 2 = 0 THEN h \o h ELSE (h \o h) \o s

RECURSIVE CharCount(_)
\* number of characters of a rope
CharCount(text) ==
    IF text = <<>> THEN 0 ELSE Len(Head(text)) + CharCount(Tail(text))

\* The fallback content.  The source's two backquotes around stderr are
\* written as apostrophes (a backquote cannot occur in a TLA+ string); the
\* length, 51 characters, is the source's.
DEFAULT_ERROR_MESSAGE == "An error occurred, check the 'stderr' for more info"

\* maximum number of characters the transport accepts as message or webhook
\* content (twilight's content validation behind .content())
MESSAGE_CONTENT_LENGTH_MAX == 2000

\* a limit that the fallback content exceeds
ShortLimit == Len(DEFAULT_ERROR_MESSAGE) - 1

\* the limits the validation of the build may enforce: twilight's, and one
\* that DEFAULT_ERROR_MESSAGE does not fit
ContentLimits == {MESSAGE_CONTENT_LENGTH_MAX, ShortLimit}

VARIABLE
    content_max     \* the maximum content length that .content() enforces

\* .content(text) is Ok exactly when the text passes validation
ContentValid(text) == CharCount(text) <= content_max

\* a rendering of the error that lacks the leading blank lines
FormatError_noprefix(error) == <<error>>

\* format!("\n\n{error}")
FormatError(error) == <<"\n\n", error>>

\* write!(error_message, "\n\nFailed to create message: {err}")
CreateMessageDiag == "\n\nFailed to create message: "
\* write!(error_message, "\n\nFailed to execute webhook: {err}")
ExecuteWebhookDiag == "\n\nFailed to execute webhook: "
\* write!(error_message, "\n\nFailed to append to file: {err}")
AppendFileDiag == "\n\nFailed to append to file: "

\* the diagnostic assigned to the buffer instead of appended to it
WriteDiag_assign(error_message, diag, err) == <<diag, err>>

\* write!(error_message, "{diag}{err}"): the diagnostic appended to the buffer
WriteDiag(error_message, diag, err) == error_message \o <<diag, err>>

(***************************************************************************)
(* Inputs: the errors reported and the outcomes of the collaborators       *)
(***************************************************************************)
\* an error whose rendering passes validation, but no longer does once a
\* diagnostic has been appended to it
NearLimitError == Repeat("n", MESSAGE_CONTENT_LENGTH_MAX - 12)
\* an error whose rendering is rejected by validation
LongError == Repeat("x", 5000)
Errors == {"disk full", NearLimitError, LongError}

\* Display of the twilight_http::Error of a failed request
HttpErrors == {"Response error: status code 403"}
\* outcomes of .exec().await
Responses == {<<"Ok">>} \cup {<<"Err", e>> : e \in HttpErrors}

\* outcomes of OpenOptions::open(..).and_then(write_all):
\* ok, open fails, or write_all fails after writing n pieces of the text
OpenError == "Permission denied (os error 13)"
WriteError == "No space left on device (os error 28)"
IoOutcomes == {<<"Ok">>, <<"OpenErr">>, <<"WriteErr", 1>>}

VARIABLES
    channel,        \* ErrorHandler.channel : Option<Id<ChannelMarker>>
    webhook,        \* ErrorHandler.webhook : Option<(Id<WebhookMarker>, String)>
    file,           \* ErrorHandler.file : Option<PathBuf>
    pc,             \* per task: where its report call stands
    entry,          \* per task: the method called, "handle" or "handle_sync"
    error,          \* per task: the rendering of the error being reported
    error_message,  \* per task: the local buffer `error_message`
    log,            \* per task: the requests, responses, file appends and
                    \* stderr lines of the call so far, in order
    reports,        \* number of report calls started
    recording,      \* whether the history of the setter calls is kept
    setter_calls    \* the setter calls made so far, in order (when kept)

vars == <<channel, webhook, file, pc, entry, error, error_message, log,
          reports, content_max, recording, setter_calls>>

cfg == <<channel, webhook, file>>

\* what no method of ErrorHandler changes
env == <<content_max, recording>>

(***************************************************************************)
(* The functions of ErrorHandler, as operators on the state of one call:   *)
(* st = [pc, error_message, log].  What a call sends, receives, appends to *)
(* the file and prints is recorded in its log; each event also records the *)
(* buffer as it stood when the event happened.                             *)
(***************************************************************************)
Event(op, content, target, result, buffer) ==
    [op |-> op, content |-> content, target |-> target, result |-> result,
     buffer |-> buffer]

\* the file append placed before the webhook
After_file_first(pos) ==
    CASE pos = "create_message" -> "append_error"
      [] pos = "append_error" -> "execute_webhook"
      [] pos = "execute_webhook" -> "eprintln"
      [] pos = "eprintln" -> "done"

\* the statement that follows statement pos in the body of handle (and of
\* handle_sync, whose body is the last two statements)
After(pos) ==
    CASE pos = "create_message" -> "execute_webhook"
      [] pos = "execute_webhook" -> "append_error"
      [] pos = "append_error" -> "eprintln"
      [] pos = "eprintln" -> "done"

\* rejected content cut down to its first piece instead of replaced
RequestContent_truncate(text) ==
    IF ContentValid(text) THEN Some(text)
    ELSE IF ContentValid(<<DEFAULT_ERROR_MESSAGE>>) THEN Some(SubSeq(text, 1, 1))
    ELSE None

\* .content(error_message).unwrap_or_else(|_| ...content(DEFAULT_ERROR_MESSAGE).unwrap())
\* Some(content of the request built), or None when the unwrap panics
RequestContent(text) ==
    IF ContentValid(text) THEN Some(text)
    ELSE IF ContentValid(<<DEFAULT_ERROR_MESSAGE>>) THEN Some(<<DEFAULT_ERROR_MESSAGE>>)
    ELSE None

\* both requests issued together, as a join of the two futures would
maybe_create_message_joined(st) ==
    IF channel = None THEN [st EXCEPT !.pc = After("create_message")]
    ELSE LET content == RequestContent(st.error_message)
             sent == Append(st.log, Event("create_message", content[1],
                                          <<channel[1]>>, <<"Sent">>, st.error_message))
         IN  IF content = None THEN [st EXCEPT !.pc = "panicked"]
             ELSE [st EXCEPT !.pc = "await_message",
                             !.log = IF webhook = None THEN sent
                                     ELSE Append(sent, Event("execute_webhook", content[1],
                                                 webhook[1], <<"Sent">>, st.error_message))]

\* maybe_create_message, up to .exec().await
maybe_create_message(st) ==
    IF channel = None THEN [st EXCEPT !.pc = After("create_message")]
    ELSE LET content == RequestContent(st.error_message)
         IN  IF content = None THEN [st EXCEPT !.pc = "panicked"]
             ELSE [st EXCEPT !.pc = "await_message",
                             !.log = Append(@, Event("create_message", content[1],
                                                     <<channel[1]>>, <<"Sent">>,
                                                     st.error_message))]

\* the delivery error unwrapped instead of written to the buffer
create_message_resolved_unwrap(st, response) ==
    LET st1 == [st EXCEPT !.pc = After("create_message"),
                          !.log = Append(@, Event("message_response", <<>>,
                                                  <<channel[1]>>, response,
                                                  st.error_message))]
    IN  IF response[1] = "Err" THEN [st1 EXCEPT !.pc = "panicked"] ELSE st1

\* the delivery error dropped instead of written to the buffer
create_message_resolved_dropped(st, response) ==
    [st EXCEPT !.pc = After("create_message"),
               !.log = Append(@, Event("message_response", <<>>,
                                       <<channel[1]>>, response, st.error_message))]

\* a failed delivery tried once more
create_message_resolved_retry(st, response) ==
    LET st1 == [st EXCEPT !.pc = After("create_message"),
                          !.log = Append(@, Event("message_response", <<>>,
                                                  <<channel[1]>>, response,
                                                  st.error_message))]
    IN  IF response[1] = "Err"
        THEN IF Len(st.log) = 1
             THEN [st1 EXCEPT !.pc = "create_message"]
             ELSE [st1 EXCEPT !.error_message = WriteDiag(@, CreateMessageDiag, response[2])]
        ELSE st1

\* maybe_create_message, from the response of .exec().await on
create_message_resolved(st, response) ==
    LET st1 == [st EXCEPT !.pc = After("create_message"),
                          !.log = Append(@, Event("message_response", <<>>,
                                                  <<channel[1]>>, response,
                                                  st.error_message))]
    IN  IF response[1] = "Err"
        THEN [st1 EXCEPT !.error_message = WriteDiag(@, CreateMessageDiag, response[2])]
        ELSE st1

\* the webhook used only as a fallback for a channel that failed
maybe_execute_webhook_fallback(st) ==
    IF \/ webhook = None
       \/ /\ channel # None
          /\ \A i \in DOMAIN st.error_message : st.error_message[i] # CreateMessageDiag
    THEN [st EXCEPT !.pc = After("execute_webhook")]
    ELSE LET content == RequestContent(st.error_message)
         IN  IF content = None THEN [st EXCEPT !.pc = "panicked"]
             ELSE [st EXCEPT !.pc = "await_webhook",
                             !.log = Append(@, Event("execute_webhook", content[1],
                                                     webhook[1], <<"Sent">>,
                                                     st.error_message))]

\* the buffer itself replaced by the content that was sent
maybe_execute_webhook_replace(st) ==
    IF webhook = None THEN [st EXCEPT !.pc = After("execute_webhook")]
    ELSE LET content == RequestContent(st.error_message)
         IN  IF content = None THEN [st EXCEPT !.pc = "panicked"]
             ELSE [st EXCEPT !.pc = "await_webhook",
                             !.error_message = content[1],
                             !.log = Append(@, Event("execute_webhook", content[1],
                                                     webhook[1], <<"Sent">>,
                                                     st.error_message))]

\* validation applied to the rendered error without the diagnostics
maybe_execute_webhook_stale(st) ==
    IF webhook = None THEN [st EXCEPT !.pc = After("execute_webhook")]
    ELSE LET content == IF ContentValid(SubSeq(st.error_message, 1, 2))
                        THEN Some(st.error_message)
                        ELSE RequestContent(st.error_message)
         IN  IF content = None THEN [st EXCEPT !.pc = "panicked"]
             ELSE [st EXCEPT !.pc = "await_webhook",
                             !.log = Append(@, Event("execute_webhook", content[1],
                                                     webhook[1], <<"Sent">>,
                                                     st.error_message))]

\* maybe_execute_webhook, up to .exec().await
maybe_execute_webhook(st) ==
    IF webhook = None THEN [st EXCEPT !.pc = After("execute_webhook")]
    ELSE LET content == RequestContent(st.error_message)
         IN  IF content = None THEN [st EXCEPT !.pc = "panicked"]
             ELSE [st EXCEPT !.pc = "await_webhook",
                             !.log = Append(@, Event("execute_webhook", content[1],
                                                     webhook[1], <<"Sent">>,
                                                     st.error_message))]

\* maybe_execute_webhook, from the response of .exec().await on
execute_webhook_resolved(st, response) ==
    LET st1 == [st EXCEPT !.pc = After("execute_webhook"),
                          !.log = Append(@, Event("webhook_response", <<>>,
                                                  webhook[1], response,
                                                  st.error_message))]
    IN  IF response[1] = "Err"
        THEN [st1 EXCEPT !.error_message = WriteDiag(@, ExecuteWebhookDiag, response[2])]
        ELSE st1

\* the text that OpenOptions..open(path).and_then(write_all(text)) appends to
\* the file at path
Written(text, io) ==
    CASE io[1] = "Ok" -> text
      [] io[1] = "OpenErr" -> <<>>
      [] io[1] = "WriteErr" -> SubSeq(text, 1, io[2])

\* the io::Error of a failed append
IoError(io) == IF io[1] = "OpenErr" THEN OpenError ELSE WriteError

\* the I/O error returned to the caller instead of written to the buffer
maybe_append_error_return(st, io) ==
    IF file = None THEN [st EXCEPT !.pc = After("append_error")]
    ELSE LET st1 == [st EXCEPT !.pc = After("append_error"),
                               !.log = Append(@, Event("append_error", st.error_message,
                                                       <<file[1]>>, io, st.error_message))]
         IN  IF io[1] = "Ok" THEN st1 ELSE [st1 EXCEPT !.pc = "done"]

\* the I/O error ignored
maybe_append_error_silent(st, io) ==
    IF file = None THEN [st EXCEPT !.pc = After("append_error")]
    ELSE [st EXCEPT !.pc = After("append_error"),
                    !.log = Append(@, Event("append_error", st.error_message,
                                            <<file[1]>>, io, st.error_message))]

\* maybe_append_error
maybe_append_error(st, io) ==
    IF file = None THEN [st EXCEPT !.pc = After("append_error")]
    ELSE LET st1 == [st EXCEPT !.pc = After("append_error"),
                               !.log = Append(@, Event("append_error", st.error_message,
                                                       <<file[1]>>, io, st.error_message))]
         IN  IF io[1] = "Ok" THEN st1
             ELSE [st1 EXCEPT !.error_message = WriteDiag(@, AppendFileDiag, IoError(io))]

\* eprintln!("{error_message}"): one line on the standard error stream (the
\* line terminator is not stored)
eprintln(st) ==
    [st EXCEPT !.pc = After("eprintln"),
               !.log = Append(@, Event("eprintln", st.error_message,
                                       <<"stderr">>, <<"Ok">>, st.error_message))]

RECURSIVE Run(_, _)
\* the body of handle / handle_sync from statement st.pc up to the next
\* .await, the end of the body, or a panic
Run(st, io) ==
    CASE st.pc = "create_message" -> Run(maybe_create_message(st), io)
      [] st.pc = "execute_webhook" -> Run(maybe_execute_webhook(st), io)
      [] st.pc = "append_error" -> Run(maybe_append_error(st, io), io)
      [] st.pc = "eprintln" -> Run(eprintln(st), io)
      [] OTHER -> st

\* one buffer shared by all calls of the reporter
Call_shared(t) ==
    [pc |-> pc[t],
     error_message |-> error_message[CHOOSE u \in Tasks : pc[u] # "idle"],
     log |-> log[t]]

\* the state of task t's call
Call(t) ==
    [pc |-> pc[t], error_message |-> error_message[t], log |-> log[t]]

\* store the state of task t's call
Store(t, st) ==
    /\ pc' = [pc EXCEPT ![t] = st.pc]
    /\ error_message' = [error_message EXCEPT ![t] = st.error_message]
    /\ log' = [log EXCEPT ![t] = st.log]

\* a fresh call whose body starts at statement start
Begin(start, e) ==
    [pc |-> start, error_message |-> FormatError(e), log |-> <<>>]

(***************************************************************************)
(* Initial state: ErrorHandler::new(), no call in progress                 *)
(***************************************************************************)
Init ==
    /\ channel = None
    /\ webhook = None
    /\ file = None
    /\ pc = [t \in Tasks |-> "idle"]
    /\ entry = [t \in Tasks |-> "none"]
    /\ error = [t \in Tasks |-> ""]
    /\ error_message = [t \in Tasks |-> <<>>]
    /\ log = [t \in Tasks |-> <<>>]
    /\ reports = 0
    /\ content_max = MESSAGE_CONTENT_LENGTH_MAX
    /\ recording = FALSE
    /\ setter_calls = <<>>

\* ErrorHandler::new() in a build whose validation enforces any of the limits
InitAnyLimit ==
    /\ channel = None
    /\ webhook = None
    /\ file = None
    /\ pc = [t \in Tasks |-> "idle"]
    /\ entry = [t \in Tasks |-> "none"]
    /\ error = [t \in Tasks |-> ""]
    /\ error_message = [t \in Tasks |-> <<>>]
    /\ log = [t \in Tasks |-> <<>>]
    /\ reports = 0
    /\ content_max \in ContentLimits
    /\ recording = FALSE
    /\ setter_calls = <<>>

\* ErrorHandler::new(), with the history of the setter calls kept
InitSetters ==
    /\ channel = None
    /\ webhook = None
    /\ file = None
    /\ pc = [t \in Tasks |-> "idle"]
    /\ entry = [t \in Tasks |-> "none"]
    /\ error = [t \in Tasks |-> ""]
    /\ error_message = [t \in Tasks |-> <<>>]
    /\ log = [t \in Tasks |-> <<>>]
    /\ reports = 0
    /\ content_max = MESSAGE_CONTENT_LENGTH_MAX
    /\ recording = TRUE
    /\ setter_calls = <<>>

\* the history of the setter calls after one more call (kept up to
\* MaxSetterCalls calls)
Record(setter, arg) ==
    /\ recording => Len(setter_calls) < MaxSetterCalls
    /\ setter_calls' = IF recording THEN Append(setter_calls, <<setter, arg>>)
                       ELSE setter_calls

\* the setters take &mut self: no call is in progress while one runs
NoCallInProgress == \A t \in Tasks : pc[t] = "idle"

(***************************************************************************)
(* Actions                                                                 *)
(***************************************************************************)
\* ErrorHandler::channel
SetChannel(channel_id) ==
    /\ NoCallInProgress
    /\ channel' = Some(channel_id)
    /\ Record("channel", channel_id)
    /\ UNCHANGED <<webhook, file, pc, entry, error, error_message, log, reports, env>>

\* ErrorHandler::webhook
SetWebhook(webhook_id, token) ==
    /\ NoCallInProgress
    /\ webhook' = Some(<<webhook_id, token>>)
    /\ Record("webhook", <<webhook_id, token>>)
    /\ UNCHANGED <<channel, file, pc, entry, error, error_message, log, reports, env>>

\* a file setter that keeps the path it already has
SetFile_keep_first(path) ==
    /\ NoCallInProgress
    /\ file' = IF file = None THEN Some(path) ELSE file
    /\ Record("file", path)
    /\ UNCHANGED <<channel, webhook, pc, entry, error, error_message, log, reports, env>>

\* ErrorHandler::file
SetFile(path) ==
    /\ NoCallInProgress
    /\ file' = Some(path)
    /\ Record("file", path)
    /\ UNCHANGED <<channel, webhook, pc, entry, error, error_message, log, reports, env>>

\* ErrorHandler::handle, from the call to its first .await (or to its end)
Handle(t, e, io) ==
    /\ pc[t] = "idle"
    /\ reports < MaxReports
    /\ reports' = reports + 1
    /\ entry' = [entry EXCEPT ![t] = "handle"]
    /\ error' = [error EXCEPT ![t] = e]
    /\ Store(t, Run(Begin("create_message", e), io))
    /\ UNCHANGED <<cfg, env, setter_calls>>

\* a channel whose delivery failed taken out of the configuration
MessageResponse_disable(t, response, io) ==
    /\ pc[t] = "await_message"
    /\ Store(t, Run(create_message_resolved(Call(t), response), io))
    /\ channel' = IF response[1] = "Err" THEN None ELSE channel
    /\ UNCHANGED <<webhook, file, entry, error, reports, env, setter_calls>>

\* ErrorHandler::handle resumed by the response to the create-message request
MessageResponse(t, response, io) ==
    /\ pc[t] = "await_message"
    /\ Store(t, Run(create_message_resolved(Call(t), response), io))
    /\ UNCHANGED <<cfg, entry, error, reports, env, setter_calls>>

\* ErrorHandler::handle resumed by the response to the execute-webhook request
WebhookResponse(t, response, io) ==
    /\ pc[t] = "await_webhook"
    /\ Store(t, Run(execute_webhook_resolved(Call(t), response), io))
    /\ UNCHANGED <<cfg, entry, error, reports, env, setter_calls>>

\* a handle_sync that goes through the network sinks as handle does
HandleSync_async(t, e, io) ==
    /\ pc[t] = "idle"
    /\ reports < MaxReports
    /\ reports' = reports + 1
    /\ entry' = [entry EXCEPT ![t] = "handle_sync"]
    /\ error' = [error EXCEPT ![t] = e]
    /\ Store(t, Run(Begin("create_message", e), io))
    /\ UNCHANGED <<cfg, env, setter_calls>>

\* ErrorHandler::handle_sync
HandleSync(t, e, io) ==
    /\ pc[t] = "idle"
    /\ reports < MaxReports
    /\ reports' = reports + 1
    /\ entry' = [entry EXCEPT ![t] = "handle_sync"]
    /\ error' = [error EXCEPT ![t] = e]
    /\ Store(t, Run(Begin("append_error", e), io))
    /\ UNCHANGED <<cfg, env, setter_calls>>

\* the call has returned to its caller; its buffer is dropped
Return(t) ==
    /\ pc[t] = "done"
    /\ pc' = [pc EXCEPT ![t] = "idle"]
    /\ entry' = [entry EXCEPT ![t] = "none"]
    /\ error' = [error EXCEPT ![t] = ""]
    /\ error_message' = [error_message EXCEPT ![t] = <<>>]
    /\ log' = [log EXCEPT ![t] = <<>>]
    /\ UNCHANGED <<cfg, reports, env, setter_calls>>

Next ==
    \/ \E id \in ChannelIds : SetChannel(id)
    \/ \E w \in WebhookTargets : SetWebhook(w[1], w[2])
    \/ \E p \in Paths : SetFile(p)
    \/ \E t \in Tasks, e \in Errors, io \in IoOutcomes : Handle(t, e, io)
    \/ \E t \in Tasks, r \in Responses, io \in IoOutcomes : MessageResponse(t, r, io)
    \/ \E t \in Tasks, r \in Responses, io \in IoOutcomes : WebhookResponse(t, r, io)
    \/ \E t \in Tasks, e \in Errors, io \in IoOutcomes : HandleSync(t, e, io)
    \/ \E t \in Tasks : Return(t)

Spec == Init /\ [][Next]_vars

\* the reporter in a build whose validation enforces any of the limits
AnyLimitSpec == InitAnyLimit /\ [][Next]_vars

\* the configuration of the reporter, with the history of the setter calls
SetterNext ==
    \/ \E id \in ChannelIds : SetChannel(id)
    \/ \E w \in WebhookTargets : SetWebhook(w[1], w[2])
    \/ \E p \in Paths : SetFile(p)

SetterSpec == InitSetters /\ [][SetterNext]_vars

(***************************************************************************)
(* Vocabulary of the properties                                            *)
(***************************************************************************)
\* positions in task t's log of the events of kind op
EventsOf(t, op) == {i \in DOMAIN log[t] : log[t][i].op = op}

\* the kinds of the events of task t's log, in order
Ops(t) == [i \in DOMAIN log[t] |-> log[t][i].op]

Attempted(t, op) == EventsOf(t, op) # {}

\* the text has the piece
Contains(text, piece) == \E i \in DOMAIN text : text[i] = piece

\* the text has the diagnostic diag followed by the error err
HasDiag(text, diag, err) ==
    \E i \in 1..(Len(text) - 1) : text[i] = diag /\ text[i + 1] = err

\* the delivery errors of the responses of kind op to task t's call
DeliveryErrors(t, op) ==
    {log[t][i].result[2] : i \in {j \in EventsOf(t, op) : log[t][j].result[1] = "Err"}}

\* the responses of kind op to task t's call that were successes
Delivered(t, op) ==
    \E i \in EventsOf(t, op) : log[t][i].result[1] = "Ok"

\* the outcomes of the failed file appends of task t's call
AppendFailures(t) ==
    {log[t][i].result : i \in {j \in EventsOf(t, "append_error") : log[t][j].result[1] # "Ok"}}

\* the buffer right after event i of task t's call
BufferAfter(t, i) ==
    IF i < Len(log[t]) THEN log[t][i + 1].buffer ELSE error_message[t]

\* task t's call has run to its end
Finished(t) == pc[t] = "done"

AllSinksSet == channel # None /\ webhook # None /\ file # None
NoSinkSet == channel = None /\ webhook = None /\ file = None
OnlyFileSet == channel = None /\ webhook = None /\ file # None

(***************************************************************************)
(* C1: in a handle call every configured sink (channel, webhook, file) is  *)
(* attempted, whatever the outcomes of the other sinks: when the call has  *)
(* run to its end, each configured sink has an attempt in its log.         *)
(***************************************************************************)
C1_AllConfiguredSinksAttempted ==
    \A t \in Tasks :
        (Finished(t) /\ entry[t] = "handle") =>
            /\ channel # None => Attempted(t, "create_message")
            /\ webhook # None => Attempted(t, "execute_webhook")
            /\ file # None => Attempted(t, "append_error")

\* a finished handle call with all sinks set in which the channel failed, the
\* webhook succeeded and both the webhook and the file were attempted
C1_Witness ==
    \E t \in Tasks :
        /\ Finished(t) /\ entry[t] = "handle" /\ AllSinksSet
        /\ DeliveryErrors(t, "message_response") # {}
        /\ Delivered(t, "webhook_response")
        /\ Attempted(t, "append_error")

(***************************************************************************)
(* C2: every report call, handle or handle_sync, ends by printing the      *)
(* final buffer to stderr exactly once: no call aborts, a call prints at   *)
(* most once, and a finished call has exactly one stderr line, which is    *)
(* its last event and carries the final buffer.                            *)
(***************************************************************************)
C2_PrintsFinalBufferOnce ==
    \A t \in Tasks :
        /\ pc[t] # "panicked"
        /\ Cardinality(EventsOf(t, "eprintln")) <= 1
        /\ Attempted(t, "eprintln") => Finished(t)
        /\ Finished(t) =>
            /\ Cardinality(EventsOf(t, "eprintln")) = 1
            /\ log[t][Len(log[t])].op = "eprintln"
            /\ log[t][Len(log[t])].content = error_message[t]

\* finished calls of both kinds that printed after a failed file append
C2_Witness ==
    /\ \E t \in Tasks :
        /\ Finished(t) /\ entry[t] = "handle_sync"
        /\ AppendFailures(t) # {}
        /\ log[t][Len(log[t])].op = "eprintln"
    /\ \E t \in Tasks :
        /\ Finished(t) /\ entry[t] = "handle"
        /\ AppendFailures(t) # {}
        /\ log[t][Len(log[t])].op = "eprintln"

(***************************************************************************)
(* C3: a report never fails towards its caller: every delivery failure of  *)
(* the channel or the webhook and every I/O failure of the file is in the  *)
(* buffer as a diagnostic, and the call goes on normally (it is awaiting   *)
(* a response or finished, never aborted).                                 *)
(***************************************************************************)
C3_FailuresAbsorbed ==
    \A t \in Tasks :
        /\ pc[t] \in {"idle", "await_message", "await_webhook", "done"}
        /\ \A err \in DeliveryErrors(t, "message_response") :
               HasDiag(error_message[t], CreateMessageDiag, err)
        /\ \A err \in DeliveryErrors(t, "webhook_response") :
               HasDiag(error_message[t], ExecuteWebhookDiag, err)
        /\ \A io \in AppendFailures(t) :
               HasDiag(error_message[t], AppendFileDiag, IoError(io))

\* a finished call in which all three sinks failed
C3_Witness ==
    \E t \in Tasks :
        /\ Finished(t)
        /\ DeliveryErrors(t, "message_response") # {}
        /\ DeliveryErrors(t, "webhook_response") # {}
        /\ AppendFailures(t) # {}

(***************************************************************************)
(* C4: the attempts of one report happen in the order channel, webhook,    *)
(* file, stderr, one after the other: the events of a call are in that     *)
(* order, and a request is followed by its own response before anything    *)
(* else of the call happens.                                               *)
(***************************************************************************)
Rank(op) ==
    CASE op = "create_message" -> 1
      [] op = "message_response" -> 2
      [] op = "execute_webhook" -> 3
      [] op = "webhook_response" -> 4
      [] op = "append_error" -> 5
      [] op = "eprintln" -> 6

C4_FixedSequentialOrder ==
    \A t \in Tasks :
        /\ \A i, j \in DOMAIN log[t] :
               i < j => Rank(log[t][i].op) < Rank(log[t][j].op)
        /\ \A i \in DOMAIN log[t] :
               i < Len(log[t]) =>
                   /\ log[t][i].op = "create_message"
                          => log[t][i + 1].op = "message_response"
                   /\ log[t][i].op = "execute_webhook"
                          => log[t][i + 1].op = "webhook_response"
        /\ pc[t] = "await_message"
               => Len(log[t]) > 0 /\ log[t][Len(log[t])].op = "create_message"
        /\ pc[t] = "await_webhook"
               => Len(log[t]) > 0 /\ log[t][Len(log[t])].op = "execute_webhook"

\* a finished call that went through all four outputs
C4_Witness ==
    \E t \in Tasks :
        /\ Finished(t)
        /\ Ops(t) = <<"create_message", "message_response", "execute_webhook",
                      "webhook_response", "append_error", "eprintln">>

(***************************************************************************)
(* C5: when validation rejects the buffer as content of a network sink,    *)
(* the request carries exactly DEFAULT_ERROR_MESSAGE; a request that       *)
(* succeeds appends nothing to the buffer; with channel and webhook set    *)
(* (no file), an error too long for the transport and both requests        *)
(* successful, both sinks got DEFAULT_ERROR_MESSAGE and the buffer is the  *)
(* rendered error without any diagnostic.                                  *)
(***************************************************************************)
C5_FallbackContent ==
    \A t \in Tasks :
        /\ \A i \in EventsOf(t, "create_message") \cup EventsOf(t, "execute_webhook") :
               ~ContentValid(log[t][i].buffer)
                   => log[t][i].content = <<DEFAULT_ERROR_MESSAGE>>
        /\ \A i \in EventsOf(t, "message_response") \cup EventsOf(t, "webhook_response") :
               log[t][i].result[1] = "Ok" => BufferAfter(t, i) = log[t][i - 1].buffer
        /\ ( /\ Finished(t) /\ entry[t] = "handle"
             /\ channel # None /\ webhook # None /\ file = None
             /\ CharCount(<<"\n\n", error[t]>>) > MESSAGE_CONTENT_LENGTH_MAX
             /\ Delivered(t, "message_response")
             /\ Delivered(t, "webhook_response") )
           => /\ \A i \in EventsOf(t, "create_message") \cup EventsOf(t, "execute_webhook") :
                     log[t][i].content = <<DEFAULT_ERROR_MESSAGE>>
              /\ error_message[t] = <<"\n\n", error[t]>>

\* the scenario: channel and webhook set, a 5000 character error, both
\* requests successful
C5_Witness ==
    \E t \in Tasks :
        /\ Finished(t) /\ entry[t] = "handle"
        /\ channel # None /\ webhook # None /\ file = None
        /\ error[t] = LongError
        /\ Delivered(t, "message_response")
        /\ Delivered(t, "webhook_response")

(***************************************************************************)
(* C6, as stated: when the channel failed with a delivery error, the       *)
(* content of the webhook request is the buffer extended with the          *)
(* "Failed to create message" diagnostic, and the content given to the     *)
(* file sink and the stderr line have that diagnostic (and the webhook's,  *)
(* if the webhook failed too).                                             *)
(***************************************************************************)
C6_ChannelFailureVisibleLater_AsStated ==
    \A t \in Tasks : \A err \in DeliveryErrors(t, "message_response") :
        /\ \A i \in EventsOf(t, "execute_webhook") :
               log[t][i].content = <<"\n\n", error[t], CreateMessageDiag, err>>
        /\ \A i \in EventsOf(t, "append_error") \cup EventsOf(t, "eprintln") :
               /\ HasDiag(log[t][i].content, CreateMessageDiag, err)
               /\ \A werr \in DeliveryErrors(t, "webhook_response") :
                      HasDiag(log[t][i].content, ExecuteWebhookDiag, werr)

(***************************************************************************)
(* C6, amended: when the channel failed with a delivery error, the webhook *)
(* is attempted from the buffer extended with the "Failed to create        *)
(* message" diagnostic: its content is that extended buffer when           *)
(* validation accepts it and DEFAULT_ERROR_MESSAGE otherwise; the content  *)
(* given to the file sink and the stderr line have that diagnostic (and    *)
(* the webhook's, if the webhook failed too).                              *)
(***************************************************************************)
C6_ChannelFailureVisibleLater ==
    \A t \in Tasks : \A err \in DeliveryErrors(t, "message_response") :
        LET extended == <<"\n\n", error[t], CreateMessageDiag, err>>
        IN  /\ \A i \in EventsOf(t, "execute_webhook") :
                   /\ log[t][i].buffer = extended
                   /\ log[t][i].content =
                          IF CharCount(extended) <= MESSAGE_CONTENT_LENGTH_MAX
                          THEN extended ELSE <<DEFAULT_ERROR_MESSAGE>>
            /\ \A i \in EventsOf(t, "append_error") \cup EventsOf(t, "eprintln") :
                   /\ HasDiag(log[t][i].content, CreateMessageDiag, err)
                   /\ \A werr \in DeliveryErrors(t, "webhook_response") :
                          HasDiag(log[t][i].content, ExecuteWebhookDiag, werr)

\* a finished call with all sinks set in which the channel and the webhook
\* failed, the webhook got the extended buffer and the file append succeeded
C6_Witness ==
    \E t \in Tasks :
        /\ Finished(t) /\ AllSinksSet
        /\ DeliveryErrors(t, "message_response") # {}
        /\ DeliveryErrors(t, "webhook_response") # {}
        /\ \E i \in EventsOf(t, "execute_webhook") :
               Contains(log[t][i].content, CreateMessageDiag)
        /\ \E i \in EventsOf(t, "append_error") :
               /\ log[t][i].result[1] = "Ok"
               /\ Contains(Written(log[t][i].content, log[t][i].result), CreateMessageDiag)

(***************************************************************************)
(* C7: a sink never sees the failure of a sink attempted after it: the     *)
(* content of a channel request has neither the webhook's nor the file's   *)
(* diagnostic, and the content of a webhook request has not the file's.    *)
(***************************************************************************)
C7_NoLaterFailureInEarlierSink ==
    \A t \in Tasks :
        /\ \A i \in EventsOf(t, "create_message") :
               /\ ~Contains(log[t][i].content, ExecuteWebhookDiag)
               /\ ~Contains(log[t][i].content, AppendFileDiag)
        /\ \A i \in EventsOf(t, "execute_webhook") :
               ~Contains(log[t][i].content, AppendFileDiag)

\* a finished call in which the channel and the webhook got the buffer as
\* content and the webhook and the file then failed
C7_Witness ==
    \E t \in Tasks :
        /\ Finished(t)
        /\ \E i \in EventsOf(t, "create_message") : log[t][i].content = log[t][i].buffer
        /\ \E i \in EventsOf(t, "execute_webhook") : log[t][i].content = log[t][i].buffer
        /\ DeliveryErrors(t, "webhook_response") # {}
        /\ AppendFailures(t) # {}

(***************************************************************************)
(* C8: with no sink set, a report does exactly one thing: it prints one    *)
(* line to stderr, "\n\n" followed by the error's description; there is no *)
(* request and no file operation.                                          *)
(***************************************************************************)
C8_NoSinkOnlyStderr ==
    \A t \in Tasks :
        (Finished(t) /\ NoSinkSet) =>
            /\ Ops(t) = <<"eprintln">>
            /\ log[t][1].content = <<"\n\n", error[t]>>

\* a finished handle call of a reporter without sinks
C8_Witness ==
    \E t \in Tasks :
        Finished(t) /\ NoSinkSet /\ entry[t] = "handle" /\ error[t] = "disk full"

(***************************************************************************)
(* C9, as stated: with only the file sink set, the text a report appends   *)
(* to the file and the text it prints to stderr are equal, also when the   *)
(* file cannot be opened.                                                  *)
(***************************************************************************)
C9_FileTextEqualsStderr_AsStated ==
    \A t \in Tasks :
        (Finished(t) /\ OnlyFileSet) =>
            \A i \in EventsOf(t, "append_error"), j \in EventsOf(t, "eprintln") :
                Written(log[t][i].content, log[t][i].result) = log[t][j].content

(***************************************************************************)
(* C9, amended: with only the file sink set, a report whose append         *)
(* succeeds appends "\n\n" followed by the error's description to the file *)
(* and prints the same text to stderr; a report whose append fails prints  *)
(* that text followed by the "Failed to append to file" diagnostic to      *)
(* stderr, while the file got nothing when it could not be opened, and at  *)
(* most a proper beginning of the text when the write failed.              *)
(***************************************************************************)
C9_OnlyFile ==
    \A t \in Tasks :
        (Finished(t) /\ OnlyFileSet) =>
            /\ Ops(t) = <<"append_error", "eprintln">>
            /\ log[t][1].target = file
            /\ LET io == log[t][1].result
                   appended == Written(log[t][1].content, io)
                   printed == log[t][2].content
                   rendered == <<"\n\n", error[t]>>
               IN  /\ io[1] = "Ok" => appended = rendered /\ printed = rendered
                   /\ io[1] # "Ok" =>
                          /\ printed = rendered \o <<AppendFileDiag, IoError(io)>>
                          /\ Len(appended) < Len(rendered)
                          /\ appended = SubSeq(rendered, 1, Len(appended))
                   /\ io[1] = "OpenErr" => appended = <<>>

\* finished reports of a reporter with only the file sink: one whose append
\* succeeded (the "disk full" scenario) and one whose file could not be opened
C9_Witness ==
    /\ OnlyFileSet
    /\ \E t \in Tasks :
        /\ Finished(t) /\ error[t] = "disk full"
        /\ \E i \in EventsOf(t, "append_error") : log[t][i].result[1] = "Ok"
    /\ \E t \in Tasks :
        /\ Finished(t)
        /\ \E i \in EventsOf(t, "append_error") : log[t][i].result[1] = "OpenErr"

(***************************************************************************)
(* C10: handle_sync never attempts the channel or the webhook, even when   *)
(* they are set: it does the file append (when a file is set) and then     *)
(* prints, and its buffer has no channel or webhook diagnostic.            *)
(***************************************************************************)
C10_SyncSkipsNetworkSinks ==
    \A t \in Tasks :
        entry[t] = "handle_sync" =>
            /\ Finished(t)
            /\ Ops(t) = IF file = None THEN <<"eprintln">>
                        ELSE <<"append_error", "eprintln">>
            /\ ~Contains(error_message[t], CreateMessageDiag)
            /\ ~Contains(error_message[t], ExecuteWebhookDiag)

\* a handle_sync call of a reporter with all sinks set, whose append failed
C10_Witness ==
    \E t \in Tasks :
        /\ entry[t] = "handle_sync" /\ Finished(t) /\ AllSinksSet
        /\ AppendFailures(t) # {}
        /\ Contains(error_message[t], AppendFileDiag)

(***************************************************************************)
(* More vocabulary                                                         *)
(***************************************************************************)
\* format!("\n\n{error}") of the error task t reports
Rendered(t) == <<"\n\n", error[t]>>

\* the diagnostic of the failures of kind op of task t's call: none, or
\* diag followed by the delivery error
DeliveryDiag(t, op, diag) ==
    IF DeliveryErrors(t, op) = {} THEN <<>>
    ELSE <<diag, CHOOSE err \in DeliveryErrors(t, op) : TRUE>>

\* the diagnostic of the failed file append of task t's call, or none
AppendDiag(t) ==
    IF AppendFailures(t) = {} THEN <<>>
    ELSE <<AppendFileDiag, IoError(CHOOSE io \in AppendFailures(t) : TRUE)>>

\* the rendered error followed by one diagnostic for each sink that has
\* failed in task t's call, in the order channel, webhook, file
RenderedWithDiags(t) ==
    Rendered(t) \o DeliveryDiag(t, "message_response", CreateMessageDiag)
                \o DeliveryDiag(t, "webhook_response", ExecuteWebhookDiag)
                \o AppendDiag(t)

\* positions of the requests in task t's log
Requests(t) == EventsOf(t, "create_message") \cup EventsOf(t, "execute_webhook")

(***************************************************************************)
(* C11: a report call aborts only when DEFAULT_ERROR_MESSAGE is itself     *)
(* rejected by the validation of a network sink (after the buffer was      *)
(* rejected): only handle aborts, with a network sink set, before          *)
(* anything is printed, and without a diagnostic for the rejection in the  *)
(* buffer; content that validation rejects is never sent; no delivery or   *)
(* I/O failure aborts the call.                                            *)
(***************************************************************************)
C11_OnlyFallbackRejectionAborts ==
    \A t \in Tasks :
        /\ pc[t] = "panicked" =>
            /\ entry[t] = "handle"
            /\ channel # None \/ webhook # None
            /\ CharCount(<<DEFAULT_ERROR_MESSAGE>>) > content_max
            /\ CharCount(error_message[t]) > content_max
            /\ error_message[t] = RenderedWithDiags(t)
            /\ ~Attempted(t, "eprintln") /\ ~Attempted(t, "append_error")
            /\ Len(log[t]) > 0 => log[t][Len(log[t])].op = "message_response"
        /\ \A i \in Requests(t) :
               /\ CharCount(log[t][i].content) <= content_max
               /\ log[t][i].content \in {log[t][i].buffer, <<DEFAULT_ERROR_MESSAGE>>}
        /\ CharCount(<<DEFAULT_ERROR_MESSAGE>>) <= content_max => pc[t] # "panicked"

\* a call that went on after a delivery failure of the channel and then
\* aborted in the webhook sink, where the buffer and the fallback content
\* were both rejected
C11_Witness ==
    \E t \in Tasks :
        /\ pc[t] = "panicked"
        /\ error[t] = "disk full"
        /\ DeliveryErrors(t, "message_response") # {}
        /\ webhook # None

(***************************************************************************)
(* C12: each setter overwrites only its own target and the last call wins: *)
(* after any sequence of setter calls, each target holds the argument of   *)
(* the last call of its own setter, and is unset if that setter was never  *)
(* called.                                                                 *)
(***************************************************************************)
\* positions in the history of the calls of the setter
CallsOf(setter) == {i \in DOMAIN setter_calls : setter_calls[i][1] = setter}

\* the argument of the last call of the setter, if any
LastArg(setter) ==
    IF CallsOf(setter) = {} THEN None
    ELSE LET last == CHOOSE i \in CallsOf(setter) : \A j \in CallsOf(setter) : j <= i
         IN  Some(setter_calls[last][2])

C12_LastSetterCallWins ==
    /\ channel = LastArg("channel")
    /\ webhook = LastArg("webhook")
    /\ file = LastArg("file")

\* the file setter called twice with different paths after another setter
C12_Witness ==
    /\ \E i, j \in CallsOf("file") :
           /\ i < j
           /\ setter_calls[i][2] # setter_calls[j][2]
           /\ file = Some(setter_calls[j][2])
    /\ channel # None \/ webhook # None

(***************************************************************************)
(* C13: within one report a network sink substitutes the fallback content  *)
(* only when validation rejected the buffer, and a delivery failure is     *)
(* never retried: each network sink sends at most one request, gets at     *)
(* most one response and appends at most one diagnostic.                   *)
(***************************************************************************)
\* number of times the piece occurs in the text
Occurrences(text, piece) == Cardinality({i \in DOMAIN text : text[i] = piece})

C13_AtMostOneRequestPerSink ==
    \A t \in Tasks :
        /\ \A op \in {"create_message", "message_response",
                      "execute_webhook", "webhook_response"} :
               Cardinality(EventsOf(t, op)) <= 1
        /\ \A i \in Requests(t) :
               log[t][i].content # log[t][i].buffer =>
                   /\ CharCount(log[t][i].buffer) > MESSAGE_CONTENT_LENGTH_MAX
                   /\ log[t][i].content = <<DEFAULT_ERROR_MESSAGE>>
        /\ Occurrences(error_message[t], CreateMessageDiag) <= 1
        /\ Occurrences(error_message[t], ExecuteWebhookDiag) <= 1
        /\ \A i \in DOMAIN log[t] :
               /\ Occurrences(log[t][i].content, CreateMessageDiag) <= 1
               /\ Occurrences(log[t][i].content, ExecuteWebhookDiag) <= 1

\* a finished call in which the channel's delivery failed and the webhook's
\* fallback attempt failed too, each with its single request
C13_Witness ==
    \E t \in Tasks :
        /\ Finished(t)
        /\ DeliveryErrors(t, "message_response") # {}
        /\ DeliveryErrors(t, "webhook_response") # {}
        /\ \E i \in EventsOf(t, "create_message") : log[t][i].content = log[t][i].buffer
        /\ \E i \in EventsOf(t, "execute_webhook") :
               log[t][i].content = <<DEFAULT_ERROR_MESSAGE>>
        /\ Occurrences(error_message[t], CreateMessageDiag) = 1
        /\ Occurrences(error_message[t], ExecuteWebhookDiag) = 1

(***************************************************************************)
(* C14: the file sink never substitutes the fallback content and never     *)
(* retries: it appends once, and what it is given is the current buffer    *)
(* (the rendered error and the diagnostics of the network sinks that       *)
(* failed); a network sink that sends the fallback content leaves the      *)
(* buffer as it is, so the file and stderr still get the full rendered     *)
(* error.                                                                  *)
(***************************************************************************)
C14_FileGetsFullBuffer ==
    \A t \in Tasks :
        /\ Cardinality(EventsOf(t, "append_error")) <= 1
        /\ \A i \in EventsOf(t, "append_error") :
               /\ log[t][i].content =
                      Rendered(t)
                          \o DeliveryDiag(t, "message_response", CreateMessageDiag)
                          \o DeliveryDiag(t, "webhook_response", ExecuteWebhookDiag)
               /\ log[t][i].result[1] = "Ok"
                      => Written(log[t][i].content, log[t][i].result) = log[t][i].content
        /\ \A i \in Requests(t) :
               log[t][i].content = <<DEFAULT_ERROR_MESSAGE>>
                   => BufferAfter(t, i) = log[t][i].buffer
        /\ \A i \in EventsOf(t, "append_error") \cup EventsOf(t, "eprintln") :
               /\ SubSeq(log[t][i].content, 1, 2) = <<"\n\n", error[t]>>
               /\ ~Contains(log[t][i].content, DEFAULT_ERROR_MESSAGE)

\* a finished call in which the channel and the webhook got the fallback
\* content, and the file and stderr the 5000 character error
C14_Witness ==
    \E t \in Tasks :
        /\ Finished(t) /\ error[t] = LongError
        /\ \E i \in EventsOf(t, "create_message") :
               log[t][i].content = <<DEFAULT_ERROR_MESSAGE>>
        /\ \E i \in EventsOf(t, "execute_webhook") :
               log[t][i].content = <<DEFAULT_ERROR_MESSAGE>>
        /\ \E i \in EventsOf(t, "append_error") :
               /\ log[t][i].result[1] = "Ok"
               /\ CharCount(Written(log[t][i].content, log[t][i].result))
                      > MESSAGE_CONTENT_LENGTH_MAX
        /\ \E i \in EventsOf(t, "eprintln") : Contains(log[t][i].content, LongError)

(***************************************************************************)
(* C15: concurrent report calls on the same reporter do not interfere:     *)
(* under every interleaving, what a call sends, appends and prints starts  *)
(* with its own rendered error, and has the diagnostic of a sink only if   *)
(* that sink failed in this very call.                                     *)
(***************************************************************************)
\* the texts of task t's call: its buffer, and the buffers and contents of
\* its requests, file append and stderr line
TextsOf(t) ==
    {error_message[t]}
        \cup {log[t][i].buffer : i \in DOMAIN log[t]}
        \cup {log[t][i].content : i \in Requests(t) \cup EventsOf(t, "append_error")
                                        \cup EventsOf(t, "eprintln")}

C15_NoCrossCallInterference ==
    \A t \in Tasks :
        pc[t] # "idle" =>
            \A text \in TextsOf(t) :
                /\ text = <<DEFAULT_ERROR_MESSAGE>> \/ SubSeq(text, 1, 2) = Rendered(t)
                /\ \A u \in Tasks \ {t} :
                       error[u] # error[t] => ~Contains(text, error[u])
                /\ Contains(text, CreateMessageDiag)
                       => DeliveryErrors(t, "message_response") # {}
                /\ Contains(text, ExecuteWebhookDiag)
                       => DeliveryErrors(t, "webhook_response") # {}
                /\ Contains(text, AppendFileDiag) => AppendFailures(t) # {}

\* two calls in flight at once, both awaiting the webhook: in one the
\* channel failed, in the other, which reports another error, it succeeded
\* and the webhook got the rendered error without a diagnostic
C15_Witness ==
    \E t, u \in Tasks :
        /\ t # u /\ error[t] # error[u]
        /\ pc[t] = "await_webhook" /\ pc[u] = "await_webhook"
        /\ DeliveryErrors(t, "message_response") # {}
        /\ Contains(error_message[t], CreateMessageDiag)
        /\ Delivered(u, "message_response")
        /\ \E i \in EventsOf(u, "execute_webhook") : log[u][i].content = Rendered(u)

(***************************************************************************)
(* C16: a report call, handle or handle_sync, leaves the configuration of  *)
(* the reporter as it is: no step of a call changes the channel, webhook   *)
(* or file target, whatever the outcomes of the sinks, so calls that run   *)
(* with no setter call in between attempt the same sinks.                  *)
(***************************************************************************)
\* the sinks task t's call has attempted, with their targets
SinksAttempted(t) ==
    {<<log[t][i].op, log[t][i].target>> :
        i \in Requests(t) \cup EventsOf(t, "append_error")}

\* the sinks configured, with their targets
SinksConfigured ==
    {<<"create_message", <<channel[1]>>>> : x \in {1} \cap DOMAIN channel}
        \cup {<<"execute_webhook", webhook[1]>> : x \in {1} \cap DOMAIN webhook}
        \cup {<<"append_error", <<file[1]>>>> : x \in {1} \cap DOMAIN file}

\* finished handle calls have attempted the same sinks, those configured
SameSinks ==
    \A t \in Tasks :
        (Finished(t) /\ entry[t] = "handle") => SinksAttempted(t) = SinksConfigured

C16_ReportLeavesConfigUnchanged ==
    [][pc' # pc => (channel' = channel /\ webhook' = webhook /\ file' = file
                    /\ SameSinks')]_vars

\* two finished handle calls on a reporter with all sinks set, the first
\* with failures of all its sinks, that attempted the same three sinks
C16_Witness ==
    \E t, u \in Tasks :
        /\ t # u /\ AllSinksSet
        /\ Finished(t) /\ entry[t] = "handle"
        /\ Finished(u) /\ entry[u] = "handle"
        /\ DeliveryErrors(t, "message_response") # {}
        /\ DeliveryErrors(t, "webhook_response") # {}
        /\ AppendFailures(t) # {}
        /\ SinksAttempted(t) = SinksAttempted(u)
        /\ Cardinality(SinksAttempted(u)) = 3

(***************************************************************************)
(* C17: the buffer is append-only within a report: "\n\n" followed by the  *)
(* error's description is a prefix of the buffer at every step, the buffer *)
(* at a step is a prefix of the buffer at the next, and the text printed   *)
(* to stderr is that prefix followed by one diagnostic for each sink that  *)
(* failed, none for a sink that succeeded or is not set, in the order      *)
(* channel, webhook, file.                                                 *)
(***************************************************************************)
IsPrefix(a, b) == Len(a) <= Len(b) /\ a = SubSeq(b, 1, Len(a))

C17_BufferAppendOnly ==
    \A t \in Tasks :
        pc[t] # "idle" =>
            /\ IsPrefix(<<"\n\n", error[t]>>, error_message[t])
            /\ \A i \in DOMAIN log[t] :
                   /\ IsPrefix(<<"\n\n", error[t]>>, log[t][i].buffer)
                   /\ IsPrefix(log[t][i].buffer, BufferAfter(t, i))
            /\ Finished(t) =>
                   \A i \in EventsOf(t, "eprintln") :
                       log[t][i].content =
                           <<"\n\n", error[t]>>
                               \o DeliveryDiag(t, "message_response", CreateMessageDiag)
                               \o DeliveryDiag(t, "webhook_response", ExecuteWebhookDiag)
                               \o AppendDiag(t)

\* finished calls: one in which the channel succeeded and the webhook and
\* the file failed, and one in which all three sinks failed
C17_Witness ==
    /\ \E t \in Tasks :
        /\ Finished(t)
        /\ Delivered(t, "message_response")
        /\ \E i \in EventsOf(t, "eprintln") :
               log[t][i].content =
                   <<"\n\n", error[t], ExecuteWebhookDiag,
                     "Response error: status code 403", AppendFileDiag, OpenError>>
    /\ \E t \in Tasks :
        /\ Finished(t)
        /\ \E i \in EventsOf(t, "eprintln") : Len(log[t][i].content) = 8

(***************************************************************************)
(* C18: the validation of the webhook's content is applied to the buffer   *)
(* as it stands when the webhook is attempted, the diagnostic of a failed  *)
(* channel included: the webhook gets DEFAULT_ERROR_MESSAGE exactly when   *)
(* that buffer is longer than the limit, and the buffer otherwise; so an   *)
(* error that is within the limit on its own is replaced in the webhook    *)
(* when the channel's diagnostic pushes the buffer over the limit.         *)
(***************************************************************************)
C18_WebhookValidatesExtendedBuffer ==
    \A t \in Tasks : \A i \in EventsOf(t, "execute_webhook") :
        LET attempted == <<"\n\n", error[t]>>
                             \o DeliveryDiag(t, "message_response", CreateMessageDiag)
        IN  /\ log[t][i].buffer = attempted
            /\ log[t][i].content = <<DEFAULT_ERROR_MESSAGE>>
                   <=> CharCount(attempted) > MESSAGE_CONTENT_LENGTH_MAX
            /\ CharCount(attempted) <= MESSAGE_CONTENT_LENGTH_MAX
                   => log[t][i].content = attempted

\* a call whose rendered error is within the limit and was sent to the
\* channel as it is; the channel failed, and the webhook got the fallback
C18_Witness ==
    \E t \in Tasks :
        /\ CharCount(<<"\n\n", error[t]>>) <= MESSAGE_CONTENT_LENGTH_MAX
        /\ \E i \in EventsOf(t, "create_message") :
               log[t][i].content = <<"\n\n", error[t]>>
        /\ DeliveryErrors(t, "message_response") # {}
        /\ \E i \in EventsOf(t, "execute_webhook") :
               log[t][i].content = <<DEFAULT_ERROR_MESSAGE>>

====
